---- MODULE Spec2Model ----
(***************************************************************************)
(* Model of the Casey Legal MCP server (src/src/index.js): the two request *)
(* handlers (tools/list, tools/call), the five tool handlers, the error    *)
(* hook and the SIGINT shutdown path.                                      *)
(*                                                                         *)
(* JavaScript values are records [t, s, d, m]: t is the typeof tag, s the  *)
(* characters of a string, and d, m the two limbs (days, milliseconds) of  *)
(* an instant or the value of a number.  A result text is the sequence of  *)
(* its interpolated lines, each [label, v]: the fixed label of the         *)
(* template and the string interpolated after it.                          *)
(***************************************************************************)
EXTENDS Integers, Sequences, FiniteSets, TLC

\* ------------------------------------------------------------------ bounds
MaxTicks == 3
MaxLog == 1
MaxSigint == 2

\* ------------------------------------------------------- program constants
MsPerDay == 1000 * 60 * 60 * 24
HalfDay == MsPerDay \div 2
CaseIdConst == "1FDV-23-0001009"

\* --------------------------------------------------------- JavaScript values
Undef == [t |-> "undefined", s |-> "", d |-> 0, m |-> 0]
Str(s) == [t |-> "string", s |-> s, d |-> 0, m |-> 0]
\* an ISO-8601 date string naming the instant d days + m milliseconds
Iso(d, m) == [t |-> "string", s |-> "ISO", d |-> d, m |-> m]
\* an array of d strings whose elements joined by ", " read s
Arr(s, d) == [t |-> "array", s |-> s, d |-> d, m |-> 0]
Num(n) == [t |-> "number", s |-> "", d |-> n, m |-> 0]
NaN == [t |-> "number", s |-> "NaN", d |-> 0, m |-> 0]
\* an instant of the clock: d days and m milliseconds since the epoch
Time(d, m) == [t |-> "time", s |-> "", d |-> d, m |-> m]
InvalidDate == [t |-> "time", s |-> "Invalid Date", d |-> 0, m |-> 0]

\* `${v}`: template interpolation
Interp(v) ==
  CASE v.t = "undefined" -> Str("undefined")
    [] v.t = "string" -> v
    [] v.t = "number" -> IF v.s = "NaN" THEN Str("NaN")
                         ELSE [t |-> "string", s |-> "digits", d |-> v.d, m |-> 0]
    [] v.t = "array" -> Str(v.s)
    [] OTHER -> Str(v.s)

\* truthiness of a value
Truthy(v) ==
  CASE v.t = "undefined" -> FALSE
    [] v.t = "string" -> v.s # ""
    [] v.t = "number" -> v.s # "NaN" /\ v.d # 0
    [] OTHER -> TRUE

\* a || b
Or(a, b) == IF Truthy(a) THEN a ELSE b

\* ------------------------------------------------------------------ objects
EmptyObj == [f \in {} |-> Undef]
\* { ...a, ...b }: later properties win
Spread(a, b) ==
  [f \in (DOMAIN a) \cup (DOMAIN b) |-> IF f \in DOMAIN b THEN b[f] ELSE a[f]]
\* o.f
Get(o, f) == IF f \in DOMAIN o THEN o[f] ELSE Undef
Obj1(f, v) == [x \in {f} |-> v]

\* -------------------------------------------------------------------- dates
\* new Date(string)
DateParse(v) ==
  IF v.t = "string" /\ v.s = "ISO" THEN Time(v.d, v.m) ELSE InvalidDate

\* a - b, in milliseconds, as [nan, d, m] with 0 <= m < MsPerDay
DateDiff(a, b) ==
  IF a.s = "Invalid Date" \/ b.s = "Invalid Date"
  THEN [nan |-> TRUE, d |-> 0, m |-> 0]
  ELSE IF a.m - b.m < 0
       THEN [nan |-> FALSE, d |-> a.d - b.d - 1, m |-> a.m - b.m + MsPerDay]
       ELSE [nan |-> FALSE, d |-> a.d - b.d, m |-> a.m - b.m]

\* Math.ceil(x / (1000 * 60 * 60 * 24))
CeilDays(x) ==
  IF x.nan THEN NaN ELSE Num(x.d + (IF x.m > 0 THEN 1 ELSE 0))

\* the day count with Math.floor in place of Math.ceil
DaysUntilFloor(date, now) ==
  LET x == DateDiff(DateParse(date), now)
  IN IF x.nan THEN NaN ELSE Num(x.d)

\* Math.ceil((new Date(args.date) - new Date()) / (1000 * 60 * 60 * 24))
DaysUntil(date, now) == CeilDays(DateDiff(DateParse(date), now))

\* a <= b on numbers: false when either side is NaN
Leq(a, b) == a.s # "NaN" /\ b.s # "NaN" /\ a.d <= b.d

\* the bands with < in place of <=
UrgencyLevelStrict(daysUntil) ==
  IF daysUntil.s # "NaN" /\ daysUntil.d < 7 THEN "URGENT"
  ELSE IF daysUntil.s # "NaN" /\ daysUntil.d < 30 THEN "IMPORTANT"
  ELSE "SCHEDULED"

\* daysUntil <= 7 ? 'URGENT' : daysUntil <= 30 ? 'IMPORTANT' : 'SCHEDULED'
UrgencyLevel(daysUntil) ==
  IF Leq(daysUntil, Num(7)) THEN "URGENT"
  ELSE IF Leq(daysUntil, Num(30)) THEN "IMPORTANT"
  ELSE "SCHEDULED"

\* `prefix${Date.now()}`
GenId(prefix, now) == [t |-> "string", s |-> prefix, d |-> now.d, m |-> now.m]

\* ------------------------------------------------------ results and errors
Line(label, v) == [label |-> label, v |-> v]
\* { content: [{ type: 'text', text }] }
Result(text) == [ok |-> TRUE, code |-> "", text |-> text]
\* a thrown error: its kind and the pieces of its message
Thrown(code, message) == [ok |-> FALSE, code |-> code, text |-> message]
NoResponse == [ok |-> FALSE, code |-> "none", text |-> <<>>]

\* reading a property of undefined
TypeErrorOf(what) == Thrown("TypeError", <<Line(what, Str("undefined"))>>)

\* --------------------------------------------------------- static tables
AnalysisTypes ==
  {"bias_detection", "timeline_analysis", "precedent_research", "civil_rights_review"}

\* findings[type] || [fallback]; an array is named by its table key
generateAnalysisFindings(type, focus) ==
  IF type.t = "string" /\ type.s \in AnalysisTypes
  THEN Arr(type.s, 3)
  ELSE Arr("Analysis completed - detailed findings available", 1)

generateRecommendations(type, focus) == Arr("recommendations", 4)

generateNextSteps(type, focus) == Arr("next_steps", 4)

\* ------------------------------------------------------------ tool handlers
\* req is [name, hasArgs, args]; hasArgs = FALSE is a call without arguments
analyzeLegalCase(req, now, caseId) ==
  IF ~req.hasArgs
  THEN TypeErrorOf("Cannot destructure property 'case_id' of 'args' as it is ")
  ELSE LET args == req.args
           case_id == IF Get(args, "case_id") = Undef THEN Str(caseId)
                      ELSE Get(args, "case_id")
           analysis_type == Get(args, "analysis_type")
           focus_area == Get(args, "focus_area")
       IN Result(<<
            Line("Legal Case Analysis Complete for ", Interp(case_id)),
            Line("Analysis Type: ", Interp(analysis_type)),
            Line("Focus Area: ", Interp(Or(focus_area, Str("General")))),
            Line("Key Findings:", Interp(generateAnalysisFindings(analysis_type, focus_area))),
            Line("Recommendations:", Interp(generateRecommendations(analysis_type, focus_area))),
            Line("Next Steps:", Interp(generateNextSteps(analysis_type, focus_area)))>>)

trackEvidence(req, now, caseId) ==
  LET evidence == Spread(Spread(Obj1("id", GenId("evidence_", now)),
                                Obj1("case_id", Str(caseId))),
                         req.args)
  IN Result(<<
       Line("Evidence Tracked Successfully", Str("")),
       Line("Evidence ID: ", Interp(Get(evidence, "id"))),
       Line("Type: ", Interp(Get(evidence, "evidence_type"))),
       Line("Description: ", Interp(Get(evidence, "description"))),
       Line("Relevance: ", Interp(Or(Get(evidence, "relevance"), Str("Not specified")))),
       Line("Date Collected: ", Interp(Or(Get(evidence, "date_collected"), Str("Not specified")))),
       Line("This evidence has been added to the Case ", Str(caseId))>>)

monitorDeadlines(req, now, caseId) ==
  IF ~req.hasArgs
  THEN TypeErrorOf("Cannot read properties of undefined (reading 'date'): ")
  ELSE LET args == req.args
           deadline == Spread(Spread(Obj1("id", GenId("deadline_", now)),
                                     Obj1("case_id", Str(caseId))),
                              args)
           daysUntil == DaysUntil(Get(args, "date"), now)
           urgencyLevel == UrgencyLevel(daysUntil)
       IN Result(<<
            Line("Deadline Monitoring Activated", Str("")),
            Line("Deadline ID: ", Interp(Get(deadline, "id"))),
            Line("Type: ", Interp(Get(deadline, "deadline_type"))),
            Line("Date: ", Interp(Get(deadline, "date"))),
            Line("Days Until: ", Interp(daysUntil)),
            Line("Urgency: ", Str(urgencyLevel)),
            Line("Priority: ", Interp(Get(deadline, "priority"))),
            Line("Description: ", Interp(Get(deadline, "description")))>>)

\* incident.witnesses?.join(', ')
JoinWitnesses(v) ==
  IF v.t = "undefined" THEN [ok |-> TRUE, v |-> Undef]
  ELSE IF v.t = "array" THEN [ok |-> TRUE, v |-> Str(v.s)]
  ELSE [ok |-> FALSE, v |-> Undef]

documentJudicialBias(req, now, caseId) ==
  LET incident == Spread(Spread(Obj1("id", GenId("bias_incident_", now)),
                                Obj1("case_id", Str(caseId))),
                         req.args)
      joined == JoinWitnesses(Get(incident, "witnesses"))
  IN IF ~joined.ok
     THEN Thrown("TypeError", <<Line("incident.witnesses?.join is not a function", Str(""))>>)
     ELSE Result(<<
       Line("Judicial Bias Incident Documented", Str("")),
       Line("Incident ID: ", Interp(Get(incident, "id"))),
       Line("Date: ", Interp(Get(incident, "incident_date"))),
       Line("Type: ", Interp(Get(incident, "bias_type"))),
       Line("Impact: ", Interp(Get(incident, "impact"))),
       Line("Description: ", Interp(Get(incident, "description"))),
       Line("Witnesses: ", Interp(Or(joined.v, Str("None specified")))),
       Line("This incident has been added to the judicial bias documentation for Case ", Str(caseId))>>)

assessChildWelfare(req, now, caseId) ==
  LET assessment == Spread(Spread(Spread(Obj1("id", GenId("welfare_", now)),
                                         Obj1("case_id", Str(caseId))),
                                  Obj1("child", Str("Kekoa"))),
                           req.args)
  IN Result(<<
       Line("Child Welfare Assessment Completed", Str("")),
       Line("Assessment ID: ", Interp(Get(assessment, "id"))),
       Line("Child: ", Str("Kekoa")),
       Line("Date: ", Interp(Get(assessment, "assessment_date"))),
       Line("Concern Type: ", Interp(Get(assessment, "concern_type"))),
       Line("Severity: ", Interp(Get(assessment, "severity"))),
       Line("Evidence: ", Interp(Or(Get(assessment, "evidence"), Str("To be gathered")))),
       Line("Recommended Action: ", Interp(Or(Get(assessment, "recommended_action"), Str("Under review"))))>>)

\* ------------------------------------------------------------- dispatching
\* new McpError(code, message)
McpError(code, message) == Thrown(code, message)

\* the switch of the tools/call handler: the value returned or the error thrown
Dispatch(req, now, caseId) ==
  CASE req.name = "analyze_legal_case" -> analyzeLegalCase(req, now, caseId)
    [] req.name = "track_evidence" -> trackEvidence(req, now, caseId)
    [] req.name = "monitor_deadlines" -> monitorDeadlines(req, now, caseId)
    [] req.name = "document_judicial_bias" -> documentJudicialBias(req, now, caseId)
    [] req.name = "child_welfare_assessment" -> assessChildWelfare(req, now, caseId)
    [] OTHER -> McpError("MethodNotFound", <<Line("Unknown tool: ", Str(req.name))>>)

\* try { switch ... } catch (error) { throw InternalError(`Error executing ...`) }
CallTool(req, now, caseId) ==
  LET r == Dispatch(req, now, caseId)
  IN IF r.ok THEN r
     ELSE McpError("InternalError",
                   <<Line("Error executing ", Str(req.name))>> \o r.text)

\* ---------------------------------------------------------- tools/list
Descriptor(name, properties, required) ==
  [name |-> name, properties |-> properties, required |-> required]

\* the required lists with every date field left out
RequiredWithoutDates(name) ==
  CASE name = "analyze_legal_case" -> {"analysis_type"}
    [] name = "track_evidence" -> {"evidence_type", "description"}
    [] name = "monitor_deadlines" -> {"deadline_type", "description"}
    [] name = "document_judicial_bias" -> {"bias_type", "description"}
    [] OTHER -> {"concern_type", "severity"}

\* inputSchema.required of each descriptor
Required(name) ==
  CASE name = "analyze_legal_case" -> {"analysis_type"}
    [] name = "track_evidence" -> {"evidence_type", "description"}
    [] name = "monitor_deadlines" -> {"deadline_type", "date", "description"}
    [] name = "document_judicial_bias" -> {"incident_date", "bias_type", "description"}
    [] OTHER -> {"assessment_date", "concern_type", "severity"}

Tools == <<
  Descriptor("analyze_legal_case",
             {"case_id", "analysis_type", "focus_area"},
             Required("analyze_legal_case")),
  Descriptor("track_evidence",
             {"evidence_type", "description", "date_collected", "relevance"},
             Required("track_evidence")),
  Descriptor("monitor_deadlines",
             {"deadline_type", "date", "description", "priority"},
             Required("monitor_deadlines")),
  Descriptor("document_judicial_bias",
             {"incident_date", "bias_type", "description", "impact", "witnesses"},
             Required("document_judicial_bias")),
  Descriptor("child_welfare_assessment",
             {"assessment_date", "concern_type", "severity", "evidence", "recommended_action"},
             Required("child_welfare_assessment"))>>

ListTools == Tools

\* ------------------------------------------------------------------- inputs
Request(name, args) == [name |-> name, hasArgs |-> TRUE, args |-> args]
\* a tools/call request whose params carry no arguments
BareRequest(name) == [name |-> name, hasArgs |-> FALSE, args |-> EmptyObj]
NoRequest == BareRequest("")

\* the date strings tried for monitor_deadlines; the clock starts at day 1
DateInputs ==
  {Iso(0, 0), Iso(1, 0), Iso(7, HalfDay), Iso(8, 0), Iso(8, 1), Iso(9, 0),
   Iso(31, 0), Iso(31, 1), Iso(32, 0), Str("not a date")}

AnalyzeInputs ==
  {[analysis_type |-> Str("bias_detection")],
   [analysis_type |-> Str("timeline_analysis"), focus_area |-> Str("due_process")],
   [analysis_type |-> Str("bias_detection"), case_id |-> Str("2ABC-24-0000001")],
   [analysis_type |-> Str("other_analysis")]}

EvidenceInputs ==
  {[evidence_type |-> Str("document"), description |-> Str("court filing")],
   [evidence_type |-> Str("photo"), description |-> Str("court filing"),
    relevance |-> Str("high"), date_collected |-> Iso(0, 0)],
   [evidence_type |-> Str("document"), description |-> Str("court filing"),
    id |-> Str("custom")]}

DeadlineInputs ==
  {[deadline_type |-> Str("filing_deadline"), date |-> dt, description |-> Str("brief")]
     : dt \in DateInputs}
  \cup
  {[deadline_type |-> Str("hearing_date"), date |-> Iso(8, 0),
    description |-> Str("brief"), priority |-> Str("high")],
   [deadline_type |-> Str("hearing_date"), date |-> Iso(8, 0),
    description |-> Str("brief"), id |-> Str("custom")],
   [deadline_type |-> Str("hearing_date"), description |-> Str("brief")]}

BiasInputs ==
  {[incident_date |-> Iso(0, 0), bias_type |-> Str("gender_bias"),
    description |-> Str("remark")],
   [incident_date |-> Iso(0, 0), bias_type |-> Str("gender_bias"),
    description |-> Str("remark"), impact |-> Str("severe"),
    witnesses |-> Arr("A, B", 2)],
   [incident_date |-> Iso(0, 0), bias_type |-> Str("gender_bias"),
    description |-> Str("remark"), impact |-> Str("minor"),
    witnesses |-> Arr("", 0)],
   [bias_type |-> Str("procedural_bias"), description |-> Str("remark")],
   [incident_date |-> Iso(0, 0), bias_type |-> Str("gender_bias"),
    description |-> Str("remark"), witnesses |-> Str("A")],
   [incident_date |-> Iso(0, 0), bias_type |-> Str("gender_bias"),
    description |-> Str("remark"), id |-> Str("custom")]}

WelfareInputs ==
  {[assessment_date |-> Str("2024-01-01"), concern_type |-> Str("neglect"),
    severity |-> Str("critical")],
   [assessment_date |-> Str("2024-01-01"), concern_type |-> Str("neglect"),
    severity |-> Str("critical"), evidence |-> Str("report"),
    recommended_action |-> Str("hearing")],
   [assessment_date |-> Str("2024-01-01"), concern_type |-> Str("neglect"),
    severity |-> Str("critical"), id |-> Str("custom")]}

Requests ==
  {Request("analyze_legal_case", a) : a \in AnalyzeInputs}
  \cup {Request("track_evidence", a) : a \in EvidenceInputs}
  \cup {Request("monitor_deadlines", a) : a \in DeadlineInputs}
  \cup {Request("document_judicial_bias", a) : a \in BiasInputs}
  \cup {Request("child_welfare_assessment", a) : a \in WelfareInputs}
  \cup {Request("nonexistent_tool", EmptyObj), Request("", EmptyObj)}
  \cup {BareRequest("analyze_legal_case"), BareRequest("track_evidence"),
        BareRequest("monitor_deadlines")}

\* how far the wall clock may move between two events, in milliseconds
ClockSteps == {1, HalfDay}

\* t + delta milliseconds
Advance(t, delta) ==
  IF t.m + delta >= MsPerDay
  THEN Time(t.d + 1, t.m + delta - MsPerDay)
  ELSE Time(t.d, t.m + delta)

\* -------------------------------------------------------------------- state
VARIABLES
  pc,       \* "constructed", "running" or "exited"
  channel,  \* the stdio transport: "unopened", "open" or "closed"
  caseId,   \* this.caseId
  clock,    \* the wall clock, read by Date.now() and new Date()
  ticks,    \* how many times the clock has moved
  last,     \* the last request served and the response sent for it
  parity,   \* parity of the number of requests served
  logged,   \* lines written by onerror
  sig       \* the SIGINT handlers started: "none", "awaiting", "resolved"

vars == <<pc, channel, caseId, clock, ticks, last, parity, logged, sig>>

Served(kind, req, now, resp, tools) ==
  [kind |-> kind, req |-> req, now |-> now, resp |-> resp, tools |-> tools]

\* constructor: the server object exists, handlers are set, nothing is connected
Init ==
  /\ pc = "constructed"
  /\ channel = "unopened"
  /\ caseId = CaseIdConst
  /\ clock = Time(1, 0)
  /\ ticks = 0
  /\ last = Served("none", NoRequest, Time(1, 0), NoResponse, <<>>)
  /\ parity = 0
  /\ logged = 0
  /\ sig = [i \in 1..MaxSigint |-> "none"]

\* run(): connect the stdio transport
Run ==
  /\ pc = "constructed"
  /\ pc' = "running"
  /\ channel' = "open"
  /\ UNCHANGED <<caseId, clock, ticks, last, parity, logged, sig>>

\* the tools/list request handler
ListToolsRequest ==
  /\ pc = "running"
  /\ channel = "open"
  /\ last' = Served("list", NoRequest, clock, NoResponse, ListTools)
  /\ parity' = 1 - parity
  /\ UNCHANGED <<pc, channel, caseId, clock, ticks, logged, sig>>

\* the tools/call request handler, keeping a caller's case_id in this.caseId
CallToolRequestStoring(req) ==
  /\ pc = "running"
  /\ channel = "open"
  /\ last' = Served("call", req, clock, CallTool(req, clock, caseId), <<>>)
  /\ parity' = 1 - parity
  /\ caseId' = IF Get(req.args, "case_id").t = "string"
               THEN Get(req.args, "case_id").s ELSE caseId
  /\ UNCHANGED <<pc, channel, clock, ticks, logged, sig>>

\* the tools/call request handler
CallToolRequest(req) ==
  /\ pc = "running"
  /\ channel = "open"
  /\ last' = Served("call", req, clock, CallTool(req, clock, caseId), <<>>)
  /\ parity' = 1 - parity
  /\ UNCHANGED <<pc, channel, caseId, clock, ticks, logged, sig>>

\* the wall clock moves
Tick(delta) ==
  /\ pc # "exited"
  /\ ticks < MaxTicks
  /\ clock' = Advance(clock, delta)
  /\ ticks' = ticks + 1
  /\ UNCHANGED <<pc, channel, caseId, last, parity, logged, sig>>

\* server.onerror: console.error and nothing else
OnError ==
  /\ pc = "running"
  /\ channel = "open"
  /\ logged < MaxLog
  /\ logged' = logged + 1
  /\ UNCHANGED <<pc, channel, caseId, clock, ticks, last, parity, sig>>

\* SIGINT arrives: the listener starts and calls this.server.close()
Sigint(i) ==
  /\ pc = "running"
  /\ sig[i] = "none"
  /\ \A j \in 1..(i - 1) : sig[j] # "none"
  /\ sig' = [sig EXCEPT ![i] = "awaiting"]
  /\ UNCHANGED <<pc, channel, caseId, clock, ticks, last, parity, logged>>

\* the promise of this.server.close() settles: the transport is closed
CloseResolved(i) ==
  /\ pc = "running"
  /\ sig[i] = "awaiting"
  /\ sig' = [sig EXCEPT ![i] = "resolved"]
  /\ channel' = "closed"
  /\ UNCHANGED <<pc, caseId, clock, ticks, last, parity, logged>>

\* the listener without the await: process.exit(0) right after the call
ExitWithoutAwait(i) ==
  /\ pc = "running"
  /\ sig[i] \in {"awaiting", "resolved"}
  /\ pc' = "exited"
  /\ UNCHANGED <<channel, caseId, clock, ticks, last, parity, logged, sig>>

\* the listener resumes after the await: process.exit(0)
Exit(i) ==
  /\ pc = "running"
  /\ sig[i] = "resolved"
  /\ pc' = "exited"
  /\ UNCHANGED <<channel, caseId, clock, ticks, last, parity, logged, sig>>

Next ==
  \/ Run
  \/ ListToolsRequest
  \/ \E req \in Requests : CallToolRequest(req)
  \/ \E delta \in ClockSteps : Tick(delta)
  \/ OnError
  \/ \E i \in 1..MaxSigint : Sigint(i)
  \/ \E i \in 1..MaxSigint : CloseResolved(i)
  \/ \E i \in 1..MaxSigint : Exit(i)

Spec == Init /\ [][Next]_vars

\* =================================================================== claims
RegisteredNames ==
  {"analyze_legal_case", "track_evidence", "monitor_deadlines",
   "document_judicial_bias", "child_welfare_assessment"}

IdGenerating ==
  {"track_evidence", "monitor_deadlines", "document_judicial_bias",
   "child_welfare_assessment"}

IdLabel(name) ==
  CASE name = "track_evidence" -> "Evidence ID: "
    [] name = "monitor_deadlines" -> "Deadline ID: "
    [] name = "document_judicial_bias" -> "Incident ID: "
    [] OTHER -> "Assessment ID: "

IdPrefix(name) ==
  CASE name = "track_evidence" -> "evidence_"
    [] name = "monitor_deadlines" -> "deadline_"
    [] name = "document_judicial_bias" -> "bias_incident_"
    [] OTHER -> "welfare_"

HasLine(resp, label) == \E i \in 1..Len(resp.text) : resp.text[i].label = label
\* the string interpolated after a label of the result text
LineOf(resp, label) ==
  resp.text[CHOOSE i \in 1..Len(resp.text) : resp.text[i].label = label].v

Called(name) == last.kind = "call" /\ last.req.name = name
Succeeded == last.kind = "call" /\ last.resp.ok

\* ----------------------------------------------------------------------- C1
\* C1: a call of an operation name outside the five registered names fails
\* with the MethodNotFound error carrying the name, never with InternalError.
UnknownNameIsMethodNotFound ==
  (last.kind = "call" /\ last.req.name \notin RegisteredNames)
    => /\ ~last.resp.ok
       /\ last.resp.code = "MethodNotFound"
       /\ \E i \in 1..Len(last.resp.text) : last.resp.text[i].v = Str(last.req.name)

\* ----------------------------------------------------------------------- C2
NamesOf(tools) == [i \in 1..Len(tools) |-> tools[i].name]
RequiredOf(tools, name) ==
  tools[CHOOSE i \in 1..Len(tools) : tools[i].name = name].required

FiveDescriptors(tools) ==
  /\ Len(tools) = 5
  /\ \A n \in RegisteredNames : Cardinality({i \in 1..Len(tools) : tools[i].name = n}) = 1

RequiredExceptBias(tools) ==
  /\ RequiredOf(tools, "analyze_legal_case") = {"analysis_type"}
  /\ RequiredOf(tools, "track_evidence") = {"evidence_type", "description"}
  /\ RequiredOf(tools, "monitor_deadlines") = {"deadline_type", "date", "description"}
  /\ RequiredOf(tools, "child_welfare_assessment")
       = {"assessment_date", "concern_type", "severity"}

\* C2 as stated: list() returns five descriptors, one per name, whose
\* required sets are those of the schema table, with incident_date optional.
ListRequiredAsInTable ==
  last.kind = "list"
    => /\ FiveDescriptors(last.tools)
       /\ RequiredExceptBias(last.tools)
       /\ RequiredOf(last.tools, "document_judicial_bias") = {"bias_type", "description"}

\* C2 amended: list() returns five descriptors, one per name, whose required
\* sets are those of the schema table except that document_judicial_bias
\* requires incident_date, bias_type and description.
ListRequiredAsRegistered ==
  last.kind = "list"
    => /\ FiveDescriptors(last.tools)
       /\ RequiredExceptBias(last.tools)
       /\ RequiredOf(last.tools, "document_judicial_bias")
            = {"incident_date", "bias_type", "description"}

ListServed == last.kind = "list" /\ Len(last.tools) = 5

\* ----------------------------------------------------------------------- C3
DaysShown == LineOf(last.resp, "Days Until: ")
UrgencyShown == LineOf(last.resp, "Urgency: ").s
DaysComputed == Called("monitor_deadlines") /\ Succeeded /\ DaysShown.s = "digits"

\* C3: for every integer day count d shown by monitor_deadlines the urgency
\* is URGENT exactly when d <= 7, IMPORTANT exactly when 8 <= d <= 30 and
\* SCHEDULED exactly when d >= 31.
UrgencyBands ==
  DaysComputed
    => /\ (UrgencyShown = "URGENT") <=> (DaysShown.d <= 7)
       /\ (UrgencyShown = "IMPORTANT") <=> (8 <= DaysShown.d /\ DaysShown.d <= 30)
       /\ (UrgencyShown = "SCHEDULED") <=> (DaysShown.d >= 31)

SevenDaysUrgent == DaysComputed /\ DaysShown.d = 7 /\ UrgencyShown = "URGENT"

\* ----------------------------------------------------------------------- C4
\* C4: monitor_deadlines called with a date string that does not parse fails
\* with the InternalError carrying the operation name; no urgency is shown.
UnparseableDateFails ==
  (/\ Called("monitor_deadlines")
   /\ last.req.hasArgs
   /\ "date" \in DOMAIN last.req.args
   /\ last.req.args["date"].s # "ISO")
    => /\ ~last.resp.ok
       /\ last.resp.code = "InternalError"
       /\ last.resp.text[1].v = Str("monitor_deadlines")
       /\ ~HasLine(last.resp, "Urgency: ")

\* ----------------------------------------------------------------------- C5
PropertiesOf(name) ==
  Tools[CHOOSE i \in 1..Len(Tools) : Tools[i].name = name].properties

\* the label of the line of the result text that renders a field
FieldLabel(name, field) ==
  CASE field = "case_id" -> "Legal Case Analysis Complete for "
    [] field = "focus_area" -> "Focus Area: "
    [] field = "relevance" -> "Relevance: "
    [] field = "date_collected" -> "Date Collected: "
    [] field = "priority" -> "Priority: "
    [] field = "incident_date" -> "Date: "
    [] field = "impact" -> "Impact: "
    [] field = "witnesses" -> "Witnesses: "
    [] field = "evidence" -> "Evidence: "
    [] OTHER -> "Recommended Action: "

Placeholders ==
  {Str(CaseIdConst), Str("General"), Str("Not specified"), Str("None specified"),
   Str("To be gathered"), Str("Under review")}

\* C5: when every required field is present and a field that is not required
\* is omitted, the line for that field shows a default or placeholder string.
OmittedOptionalShowsPlaceholder ==
  (/\ last.kind = "call"
   /\ last.req.name \in RegisteredNames
   /\ RequiredOf(Tools, last.req.name) \subseteq DOMAIN last.req.args
   /\ last.resp.ok)
    => \A f \in (PropertiesOf(last.req.name) \ RequiredOf(Tools, last.req.name))
                  \ DOMAIN last.req.args :
         LineOf(last.resp, FieldLabel(last.req.name, f)) \in Placeholders

\* ----------------------------------------------------------------------- C6
TimeDerived == {"Days Until: ", "Urgency: "}

SameOutsideIdAndTime(a, b, name) ==
  /\ Len(a.text) = Len(b.text)
  /\ \A i \in 1..Len(a.text) :
       /\ a.text[i].label = b.text[i].label
       /\ a.text[i].label \notin (TimeDerived \cup {IdLabel(name)})
            => a.text[i].v = b.text[i].v

\* C6: two successive successful calls of the same id-generating operation
\* with identical arguments carry different ids and agree on every line
\* other than the id and the time-derived ones.
SuccessiveIdsDiffer ==
  [][(/\ parity' # parity
      /\ last.kind = "call" /\ last'.kind = "call"
      /\ last.req.name \in IdGenerating
      /\ last'.req = last.req
      /\ last.resp.ok /\ last'.resp.ok)
       => /\ LineOf(last'.resp, IdLabel(last.req.name))
               # LineOf(last.resp, IdLabel(last.req.name))
          /\ SameOutsideIdAndTime(last.resp, last'.resp, last.req.name)]_vars

\* ----------------------------------------------------------------------- C7
\* C7: no request changes the stored state: the case identifier stays the
\* constant, a list returns the five descriptors in registry order, and the
\* response of a call is the one its arguments and the clock alone determine.
RequestsLeaveStateAlone ==
  /\ caseId = CaseIdConst
  /\ last.kind = "list"
       => NamesOf(last.tools)
            = <<"analyze_legal_case", "track_evidence", "monitor_deadlines",
                "document_judicial_bias", "child_welfare_assessment">>
  /\ last.kind = "call" => last.resp = CallTool(last.req, last.now, CaseIdConst)

CallWithOwnCaseId ==
  /\ Called("analyze_legal_case")
  /\ Succeeded
  /\ "case_id" \in DOMAIN last.req.args
  /\ last.req.args["case_id"] # Str(CaseIdConst)

\* ----------------------------------------------------------------------- C8
\* C8: the process exits only after the close of the channel has completed,
\* and an error reported through onerror is logged without ending the process.
ExitOnlyAfterClose ==
  /\ [](pc = "exited" => channel = "closed")
  /\ [][logged' # logged => (pc' = pc /\ channel' = channel)]_vars

ExitedAfterErrorAndCall ==
  pc = "exited" /\ channel = "closed" /\ logged > 0 /\ last.kind = "call"

\* ----------------------------------------------------------------------- C9
\* a <= b on instants
TimeLeq(a, b) == a.d < b.d \/ (a.d = b.d /\ a.m <= b.m)
PlusDays(t, n) == Time(t.d + n, t.m)
DateAsked == DateParse(last.req.args["date"])

\* C9 as stated: the day count shown is the number of completed days between
\* now and the date: now + d days <= date < now + (d + 1) days.
DaysAreCompletedDays ==
  (DaysComputed /\ TimeLeq(last.now, DateAsked))
    => /\ TimeLeq(PlusDays(last.now, DaysShown.d), DateAsked)
       /\ ~TimeLeq(PlusDays(last.now, DaysShown.d + 1), DateAsked)

\* C9 amended: the day count shown is the number of days rounded up to the
\* next whole day: now + (d - 1) days < date <= now + d days.
DaysAreRoundedUp ==
  DaysComputed
    => /\ TimeLeq(DateAsked, PlusDays(last.now, DaysShown.d))
       /\ ~TimeLeq(DateAsked, PlusDays(last.now, DaysShown.d - 1))

SevenDaysAndOneMs ==
  /\ DaysComputed
  /\ DateAsked = Advance(PlusDays(last.now, 7), 1)
  /\ DaysShown.d = 8

\* ---------------------------------------------------------------------- C10
\* C10: the id line of an id-generating operation shows the handler's prefix
\* followed by the time of the call, whatever the arguments contain.
IdLineIsGenerated ==
  (last.kind = "call" /\ last.req.name \in IdGenerating /\ last.resp.ok)
    => LineOf(last.resp, IdLabel(last.req.name))
         = GenId(IdPrefix(last.req.name), last.now)

====
